---- MODULE Spec2Model ----
(***************************************************************************)
(* CareerHub page script (src/script.js): the skill-tag / autocomplete     *)
(* widget on the user_skills input, the /analyze form's required-marker    *)
(* and file validator, and the shared required-field validator.            *)
(*                                                                         *)
(* Texts are sequences of one-character strings, so that toLowerCase,      *)
(* trim, split, includes, endsWith, replace and join are computed the way  *)
(* the script computes them.  Every handler runs to completion: one action *)
(* is one event with all the listeners registered for it, in registration  *)
(* order.                                                                  *)
(***************************************************************************)
EXTENDS Integers, Sequences, FiniteSets, TLC

VARIABLES
    inputValue,     \* value of input[name="user_skills"]
    chips,          \* the .skill-tag elements in DOM order
    tagsContainer,  \* whether .skill-tags-container exists
    lastInput,      \* argument of the latest showSkillSuggestions call
    dropdownItems,  \* items appended to the latest dropdown element built
    pageDropdowns,  \* the .suggestions-dropdown elements attached to the page
    threw,          \* whether the latest handler ended in an uncaught exception
    tagOp,          \* the latest widget event
    commitText,     \* the text the latest commit attempt was made with: the
                    \* input's value at keydown, or the argument of addSkillTag
    clickedChip,    \* position of the chip whose remove control was clicked
    cvText,         \* value of textarea[name="cv_text"]
    cvFiles,        \* files of #cv_file: empty, or the one selected file
    cvRequired,     \* whether cv_text carries the required attribute
    cvFieldError,   \* whether a .field-error element sits in cv_text's parent
    cvBorderTinted, \* whether cv_text has the error border colour
    charCounter,    \* text and colour of the .char-counter element
    badge,          \* #cv_file_badge display and #cv_file_name text
    badgeBefore,    \* the badge as it was when the latest event began
    fabOpen,        \* whether .fab-upload has the class open
    fabAccept,      \* the accept attribute of #cv_file
    lastFile,       \* the file the latest change event was dispatched for
    cvNote,         \* the notification the latest event showed
    cvOp,           \* the latest event on the /analyze form
    cvSubmit,       \* what became of the latest submit attempt
    fValue,         \* value of each field of a form other than /analyze
    fParent,        \* the parent element of each field
    fRequired,      \* whether each field carries the required attribute
    fErrors,        \* per parent element, its .field-error children in DOM
                    \* order, each named by the field it was created for
    fBorder,        \* whether each field has the error border colour
    fValid,         \* what the latest validateForm call returned
    fPrevented,     \* whether the latest submit event had its default prevented
    fOp,            \* the latest event on that form
    markup,         \* which of the elements the script looks up the page holds
    initPc,         \* how many initialisers of the DOMContentLoaded handler returned
    initThrew,      \* whether that handler ended in an uncaught exception
    installed,      \* the listeners registered and elements created at page load
    skChecked,      \* the input[name="skills"] checkboxes that are checked
    skCounter,      \* the number the .skill-counter element shows
    skPrevented,    \* whether the /skills submit listener prevented the latest submit
    skNote,         \* the notification the latest /skills event showed
    skOp,           \* the latest event on the /skills form
    notifications,  \* every .notification element created, in creation order
    noteOp,         \* the latest event of the notification system
    buttons,        \* per button[type="submit"]: innerHTML, disabled, whether
                    \* its restore timer is pending, the originalText that
                    \* timer's closure holds, and the label at the latest click
    buttonForm,     \* per button: no form, or what its form's checkValidity gives
    navigating,     \* whether a form submission is replacing the page
    loadThrew,      \* whether the latest click listener ended in an exception
    loadOp          \* the latest event on the submit buttons

tagVars == <<inputValue, chips, tagsContainer, lastInput, dropdownItems,
             pageDropdowns, threw, tagOp, commitText, clickedChip>>

cvVars == <<cvText, cvFiles, cvRequired, cvFieldError, cvBorderTinted,
            charCounter, badge, badgeBefore, fabOpen, fabAccept, lastFile,
            cvNote, cvOp, cvSubmit>>

formVars == <<fValue, fParent, fRequired, fErrors, fBorder, fValid, fPrevented, fOp>>

initVars == <<markup, initPc, initThrew, installed>>

skillsVars == <<skChecked, skCounter, skPrevented, skNote, skOp>>

noteVars == <<notifications, noteOp>>

loadVars == <<buttons, buttonForm, navigating, loadThrew, loadOp>>

vars == <<tagVars, cvVars, formVars, initVars, skillsVars, noteVars, loadVars>>

\* what the events of one part of the page leave alone
otherThanTags == <<cvVars, formVars, initVars, skillsVars, noteVars, loadVars>>

otherThanCV == <<tagVars, formVars, initVars, skillsVars, noteVars, loadVars>>

otherThanForm == <<tagVars, cvVars, initVars, skillsVars, noteVars, loadVars>>

otherThanInit == <<tagVars, cvVars, formVars, skillsVars, noteVars, loadVars>>

otherThanSkills == <<tagVars, cvVars, formVars, initVars, loadVars>>

otherThanNotes == <<tagVars, cvVars, formVars, initVars, skillsVars, loadVars>>

otherThanLoading == <<tagVars, cvVars, formVars, initVars, skillsVars, noteVars>>

(***************************************************************************)
(* Bounds of the model.                                                    *)
(***************************************************************************)
MaxInputLen == 4
MaxTagInputLen == 2
MaxChips == 2
MaxCvLen == 2
NumFields == 2
NumSkills == 3
MaxNotes == 2
NumButtons == 2

(***************************************************************************)
(* Text primitives of the JavaScript runtime, on sequences of characters.  *)
(***************************************************************************)
UpperChars == <<"A","B","C","D","E","F","G","H","I","J","K","L","M",
                "N","O","P","Q","R","S","T","U","V","W","X","Y","Z">>

LowerChars == <<"a","b","c","d","e","f","g","h","i","j","k","l","m",
                "n","o","p","q","r","s","t","u","v","w","x","y","z">>

LowerOf == [c \in {UpperChars[i] : i \in 1..Len(UpperChars)} |->
               LowerChars[CHOOSE i \in 1..Len(UpperChars) : UpperChars[i] = c]]

ToLowerChar(c) == IF c \in DOMAIN LowerOf THEN LowerOf[c] ELSE c

\* String.prototype.toLowerCase
ToLowerCase(s) == [i \in 1..Len(s) |-> ToLowerChar(s[i])]

\* whether pat occurs in s at position i (1-based)
OccursAt(s, pat, i) ==
    /\ i >= 1
    /\ i + Len(pat) - 1 <= Len(s)
    /\ \A k \in 1..Len(pat) : s[i + k - 1] = pat[k]

\* String.prototype.includes
Includes(s, pat) == \E i \in 1..(Len(s) + 1) : OccursAt(s, pat, i)

\* String.prototype.endsWith
EndsWith(s, suf) == OccursAt(s, suf, Len(s) - Len(suf) + 1)

IsSpace(c) == c = " "

RECURSIVE TrimStart(_)
TrimStart(s) ==
    IF s # <<>> /\ IsSpace(Head(s)) THEN TrimStart(Tail(s)) ELSE s

RECURSIVE TrimEnd(_)
TrimEnd(s) ==
    IF s # <<>> /\ IsSpace(s[Len(s)])
    THEN TrimEnd(SubSeq(s, 1, Len(s) - 1))
    ELSE s

\* String.prototype.trim
Trim(s) == TrimEnd(TrimStart(s))

\* String.prototype.split(','): an empty text gives one empty segment
RECURSIVE Split(_)
Split(s) ==
    IF \E i \in 1..Len(s) : s[i] = ","
    THEN LET i == CHOOSE j \in 1..Len(s) :
                      s[j] = "," /\ \A k \in 1..(j - 1) : s[k] # ","
         IN  <<SubSeq(s, 1, i - 1)>> \o Split(SubSeq(s, i + 1, Len(s)))
    ELSE <<s>>

\* Array.prototype.join(', ')
RECURSIVE Join(_)
Join(texts) ==
    IF texts = <<>> THEN <<>>
    ELSE IF Len(texts) = 1 THEN texts[1]
    ELSE texts[1] \o <<",", " ">> \o Join(Tail(texts))

\* String.prototype.replace(pat, ''): the first occurrence only
RemoveFirst(s, pat) ==
    IF \E i \in 1..Len(s) : OccursAt(s, pat, i)
    THEN LET i == CHOOSE j \in 1..Len(s) :
                      OccursAt(s, pat, j) /\ \A k \in 1..(j - 1) : ~OccursAt(s, pat, k)
         IN  SubSeq(s, 1, i - 1) \o SubSeq(s, i + Len(pat), Len(s))
    ELSE s

\* Array.prototype.slice(0, n)
SliceFront(xs, n) == SubSeq(xs, 1, IF Len(xs) < n THEN Len(xs) ELSE n)

(***************************************************************************)
(* The autocomplete vocabulary and filter (showSkillSuggestions).          *)
(***************************************************************************)
suggestions ==
    << <<"P","y","t","h","o","n">>,
       <<"J","a","v","a","S","c","r","i","p","t">>,
       <<"J","a","v","a">>,
       <<"C","+","+">>,
       <<"C","#">>,
       <<"P","H","P">>,
       <<"R","u","b","y">>,
       <<"S","w","i","f","t">>,
       <<"K","o","t","l","i","n">>,
       <<"H","T","M","L">>,
       <<"C","S","S">>,
       <<"R","e","a","c","t">>,
       <<"A","n","g","u","l","a","r">>,
       <<"V","u","e",".","j","s">>,
       <<"N","o","d","e",".","j","s">>,
       <<"D","j","a","n","g","o">>,
       <<"F","l","a","s","k">>,
       <<"M","y","S","Q","L">>,
       <<"P","o","s","t","g","r","e","S","Q","L">>,
       <<"M","o","n","g","o","D","B">>,
       <<"S","Q","L","i","t","e">>,
       <<"O","r","a","c","l","e">>,
       <<"G","i","t">>,
       <<"D","o","c","k","e","r">>,
       <<"A","W","S">>,
       <<"A","z","u","r","e">>,
       <<"L","i","n","u","x">>,
       <<"W","i","n","d","o","w","s">>,
       <<"M","a","c","O","S">>,
       <<"C","o","m","m","u","n","i","c","a","t","i","o","n">>,
       <<"T","e","a","m","w","o","r","k">>,
       <<"P","r","o","b","l","e","m"," ","S","o","l","v","i","n","g">>,
       <<"L","e","a","d","e","r","s","h","i","p">>,
       <<"T","i","m","e"," ","M","a","n","a","g","e","m","e","n","t">> >>

\* AlreadyEntered with the comparison left case-sensitive
AlreadyEnteredCaseSensitive(skill, input) ==
    \E i \in 1..Len(Split(input)) : Trim(Split(input)[i]) = skill

\* input.split(',').some(entered => entered.trim().toLowerCase() === skill.toLowerCase())
AlreadyEntered(skill, input) ==
    LET entered == Split(input)
    IN  \E i \in 1..Len(entered) :
            ToLowerCase(Trim(entered[i])) = ToLowerCase(skill)

\* SuggestionMatches without its second conjunct
SuggestionMatchesSubstringOnly(skill, input) ==
    Includes(ToLowerCase(skill), ToLowerCase(input))

\* the predicate of suggestions.filter(...)
SuggestionMatches(skill, input) ==
    /\ Includes(ToLowerCase(skill), ToLowerCase(input))
    /\ ~AlreadyEntered(skill, input)

filtered(input) ==
    LET keep(skill) == SuggestionMatches(skill, input)
    IN  SelectSeq(suggestions, keep)

\* the items showSuggestionsDropdown builds: suggestions.slice(0, 5)
MaxShown == 5

DropdownItemsFor(list) == SliceFront(list, MaxShown)

\* the condition under which showSkillSuggestions builds a dropdown:
\* filtered.length > 0 && input.length > 1 (two tests without effect; the
\* cheaper one is written first)
ShouldShow(input) == Len(input) > 1 /\ Len(filtered(input)) > 0

\* hideSuggestionsDropdown: the first .suggestions-dropdown of the page is removed
hideSuggestionsDropdown(page) == IF page = <<>> THEN page ELSE Tail(page)

\* showSuggestionsDropdown(suggestions, input) is handed the input's text, not
\* the element: input.parentNode is undefined and input.parentNode.style
\* throws a TypeError after the items were built and before the dropdown is
\* appended to the page.
PageAfterShow(page, items) == hideSuggestionsDropdown(page)

\* showSkillSuggestions(input), as the four values it leaves behind
showSkillSuggestions(input) ==
    /\ lastInput' = input
    /\ IF ShouldShow(input)
       THEN /\ dropdownItems' = DropdownItemsFor(filtered(input))
            /\ pageDropdowns' = PageAfterShow(pageDropdowns, dropdownItems')
            /\ threw' = TRUE
       ELSE /\ dropdownItems' = <<>>
            /\ pageDropdowns' = hideSuggestionsDropdown(pageDropdowns)
            /\ threw' = FALSE

(***************************************************************************)
(* The tag chips (addSkillTag, updateSkillsInput).                         *)
(***************************************************************************)
\* the text of the remove control: innerHTML is a space and the glyph U+00D7, written "*" here
RemoveGlyph == <<" ", "*">>

\* the chip addSkillTag builds: a text node holding skill, then the remove control
NewChip(skill) == [skill |-> skill, textContent |-> skill \o RemoveGlyph]

\* tag.textContent.replace(<remove control text>, '')
ChipSkillText(chip) == RemoveFirst(chip.textContent, RemoveGlyph)

\* the value updateSkillsInput writes into user_skills
SkillsInputValue(chs) == Join([i \in 1..Len(chs) |-> ChipSkillText(chs[i])])

\* addSkillTag refusing a text that a chip already holds
addSkillTagOnce(skill, thenClear) ==
    IF skill = <<>> \/ \E i \in 1..Len(chips) : chips[i].skill = skill
    THEN /\ chips' = chips
         /\ tagsContainer' = tagsContainer
         /\ inputValue' = IF thenClear THEN <<>> ELSE inputValue
    ELSE /\ chips' = Append(chips, NewChip(skill))
         /\ tagsContainer' = TRUE
         /\ inputValue' = IF thenClear THEN <<>> ELSE SkillsInputValue(chips')

\* addSkillTag(skill); thenClear: the caller is the keydown listener, which
\* sets the input's value to '' once addSkillTag has returned
addSkillTag(skill, thenClear) ==
    IF skill = <<>>
    THEN /\ chips' = chips
         /\ tagsContainer' = tagsContainer
         /\ inputValue' = IF thenClear THEN <<>> ELSE inputValue
    ELSE /\ chips' = Append(chips, NewChip(skill))
         /\ tagsContainer' = TRUE
         /\ inputValue' = IF thenClear THEN <<>> ELSE SkillsInputValue(chips')

(***************************************************************************)
(* Events of the widget.                                                   *)
(***************************************************************************)
\* input event on user_skills after a character was inserted
InputEvent(c, maxLen) ==
    /\ Len(inputValue) < maxLen
    /\ inputValue' = Append(inputValue, c)
    /\ showSkillSuggestions(inputValue')
    /\ tagOp' = "input"
    /\ commitText' = <<>>
    /\ clickedChip' = 0
    /\ UNCHANGED <<chips, tagsContainer>>
    /\ UNCHANGED otherThanTags

\* input event on user_skills after the last character was deleted
DeleteEvent(maxLen) ==
    /\ inputValue # <<>>
    /\ Len(inputValue) <= maxLen
    /\ inputValue' = SubSeq(inputValue, 1, Len(inputValue) - 1)
    /\ showSkillSuggestions(inputValue')
    /\ tagOp' = "input"
    /\ commitText' = <<>>
    /\ clickedChip' = 0
    /\ UNCHANGED <<chips, tagsContainer>>
    /\ UNCHANGED otherThanTags

\* input event on user_skills after the whole text was selected and replaced
\* by one typed character
ReplaceEvent(c) ==
    /\ inputValue # <<>>
    /\ inputValue' = <<c>>
    /\ showSkillSuggestions(inputValue')
    /\ tagOp' = "input"
    /\ commitText' = <<>>
    /\ clickedChip' = 0
    /\ UNCHANGED <<chips, tagsContainer>>
    /\ UNCHANGED otherThanTags

\* keydown on user_skills with e.key 'Enter' or ','
CommitKeys == {"Enter", ","}

KeyCommit(key, maxLen) ==
    /\ key \in CommitKeys
    /\ Len(chips) < MaxChips
    /\ Len(inputValue) <= maxLen
    /\ addSkillTag(Trim(inputValue), TRUE)
    /\ tagOp' = "keyCommit"
    /\ commitText' = inputValue
    /\ clickedChip' = 0
    /\ threw' = FALSE
    /\ UNCHANGED <<lastInput, dropdownItems, pageDropdowns>>
    /\ UNCHANGED otherThanTags

\* window.CareerHub.addSkillTag(skill), called by another script of the page
ApiAddSkillTag(skill) ==
    /\ Len(chips) < MaxChips
    /\ addSkillTag(skill, FALSE)
    /\ tagOp' = "apiAdd"
    /\ commitText' = skill
    /\ clickedChip' = 0
    /\ threw' = FALSE
    /\ UNCHANGED <<lastInput, dropdownItems, pageDropdowns>>
    /\ UNCHANGED otherThanTags

\* click on the remove control of the i-th chip
RemoveChip(i) ==
    /\ i \in 1..Len(chips)
    /\ chips' = SubSeq(chips, 1, i - 1) \o SubSeq(chips, i + 1, Len(chips))
    /\ inputValue' = SkillsInputValue(chips')
    /\ tagOp' = "remove"
    /\ commitText' = <<>>
    /\ clickedChip' = i
    /\ threw' = FALSE
    /\ UNCHANGED <<tagsContainer, lastInput, dropdownItems, pageDropdowns>>
    /\ UNCHANGED otherThanTags

(***************************************************************************)
(* The /analyze form: required marker, file validator, badge, submit.      *)
(***************************************************************************)
NoFile == [name |-> <<>>, size |-> 0]

NoNote == [type |-> "none", message |-> <<>>]

HiddenBadge == [shown |-> FALSE, name |-> <<>>]

\* syncRequired looking at the text alone
syncRequiredTextOnly(text, files) == ~(Len(Trim(text)) > 0)

\* syncRequired: the required attribute it leaves on cv_text
syncRequired(text, files) ==
    LET hasText == Len(Trim(text)) > 0
        hasFile == Len(files) > 0
    IN  ~(hasText \/ hasFile)

\* the 'input' listener of initializeCVAnalysis
CounterLowLimit == 50

CounterMidLimit == 200

\* the counter as initializeCVAnalysis creates it
EmptyCounter == [length |-> 0, color |-> "#7f8c8d"]

CharCounterFor(text) ==
    [length |-> Len(text),
     color  |-> IF Len(text) < CounterLowLimit THEN "#e74c3c"
                ELSE IF Len(text) < CounterMidLimit THEN "#f39c12"
                ELSE "#27ae60"]

\* file.name.toLowerCase().endsWith('.pdf') || ...endsWith('.docx')
nameAllowed(name) ==
    \/ EndsWith(ToLowerCase(name), <<".","p","d","f">>)
    \/ EndsWith(ToLowerCase(name), <<".","d","o","c","x">>)

\* the size limit: 8 * 1024 * 1024
MaxFileBytes == 8 * 1024 * 1024

\* sizeTooLarge with the limit itself rejected
sizeTooLargeAtLimit(size) == size >= MaxFileBytes

\* file.size > 8 * 1024 * 1024
sizeTooLarge(size) == size > MaxFileBytes

\* the notifications of the file validator and of the badge remove control
NoteBadType == [type |-> "error", message |-> <<"Only PDF or DOCX files are accepted.">>]

NoteTooLarge == [type |-> "error", message |-> <<"File is too large (max 8MB).">>]

NoteSelected(name) == [type |-> "success", message |-> <<"File selected: ">> \o name]

NoteRemoved == [type |-> "info",
                message |-> <<"File removed. You can upload a different file.">>]

\* showFieldError / clearFieldError on cv_text, as validateForm's loop over
\* form.querySelectorAll('[required]') applies them
CvErrorAfterLoop(text, required, shownBefore) ==
    IF required THEN Trim(text) = <<>> ELSE shownBefore

\* validateForm on the /analyze form: the required attribute it leaves
CvRequiredAfterValidate(text, files) ==
    LET hasFile == Len(files) > 0
        hasText == Len(Trim(text)) > 0
    IN  ~hasFile /\ ~hasText

\* the browser's constraint validation before it dispatches submit: a required
\* textarea blocks the submit only when its value is empty
NativeValid(text, required) == ~(required /\ text = <<>>)

\* input event on cv_text: syncRequired, then the character counter
CvTextEvent(text) ==
    /\ cvSubmit # "sent"
    /\ cvText' = text
    /\ cvRequired' = syncRequired(text, cvFiles)
    /\ charCounter' = CharCounterFor(text)
    /\ cvOp' = "textInput"
    /\ cvNote' = NoNote
    /\ lastFile' = NoFile
    /\ badgeBefore' = badge
    /\ cvSubmit' = "none"
    /\ UNCHANGED <<cvFiles, cvFieldError, cvBorderTinted, badge, fabOpen, fabAccept>>
    /\ UNCHANGED otherThanCV

CvTextInput(c) ==
    /\ Len(cvText) < MaxCvLen
    /\ CvTextEvent(Append(cvText, c))

CvTextDelete ==
    /\ cvText # <<>>
    /\ CvTextEvent(SubSeq(cvText, 1, Len(cvText) - 1))

\* change event on #cv_file after the user chose file: syncRequired (registered
\* by initializeFormValidation) runs first, the validator of
\* initializeFileValidation second
FileChange(file) ==
    /\ cvSubmit # "sent"
    /\ lastFile' = file
    /\ badgeBefore' = badge
    /\ cvRequired' = syncRequired(cvText, <<file>>)
    /\ IF ~nameAllowed(file.name)
       THEN /\ cvNote' = NoteBadType
            /\ cvFiles' = <<>>
            /\ UNCHANGED <<badge, fabOpen>>
       ELSE IF sizeTooLarge(file.size)
       THEN /\ cvNote' = NoteTooLarge
            /\ cvFiles' = <<>>
            /\ UNCHANGED <<badge, fabOpen>>
       ELSE /\ cvNote' = NoteSelected(file.name)
            /\ cvFiles' = <<file>>
            /\ badge' = [shown |-> TRUE, name |-> file.name]
            /\ fabOpen' = FALSE
    /\ cvOp' = "fileChange"
    /\ cvSubmit' = "none"
    /\ UNCHANGED <<cvText, cvFieldError, cvBorderTinted, charCounter, fabAccept>>
    /\ UNCHANGED otherThanCV

\* change event on #cv_file with no file: the chooser was dismissed and the
\* browser emptied the selection; the validator returns at once
FileCancel ==
    /\ cvSubmit # "sent"
    /\ cvFiles # <<>>
    /\ cvFiles' = <<>>
    /\ cvRequired' = syncRequired(cvText, <<>>)
    /\ lastFile' = NoFile
    /\ badgeBefore' = badge
    /\ cvNote' = NoNote
    /\ cvOp' = "fileCancel"
    /\ cvSubmit' = "none"
    /\ UNCHANGED <<cvText, cvFieldError, cvBorderTinted, charCounter, badge,
                   fabOpen, fabAccept>>
    /\ UNCHANGED otherThanCV

\* click on #cv_file_remove, which sits in the displayed badge
BadgeRemoveClick ==
    /\ cvSubmit # "sent"
    /\ badge.shown
    /\ cvFiles' = <<>>
    /\ badge' = HiddenBadge
    /\ badgeBefore' = badge
    /\ cvNote' = NoteRemoved
    /\ lastFile' = NoFile
    /\ cvOp' = "badgeRemove"
    /\ cvSubmit' = "none"
    /\ UNCHANGED <<cvText, cvRequired, cvFieldError, cvBorderTinted, charCounter,
                   fabOpen, fabAccept>>
    /\ UNCHANGED otherThanCV

\* click on .fab-main
FabMainClick ==
    /\ cvSubmit # "sent"
    /\ fabOpen' = ~fabOpen
    /\ cvOp' = "fabToggle"
    /\ cvNote' = NoNote
    /\ lastFile' = NoFile
    /\ badgeBefore' = badge
    /\ cvSubmit' = "none"
    /\ UNCHANGED <<cvText, cvFiles, cvRequired, cvFieldError, cvBorderTinted,
                   charCounter, badge, fabAccept>>
    /\ UNCHANGED otherThanCV

\* click on a .fab-item: the accept attribute is set and the chooser opened
FabTypes == {"pdf", "docx", "other"}

FabItemClick(type) ==
    /\ cvSubmit # "sent"
    /\ fabOpen
    /\ fabAccept' = IF type = "pdf" THEN ".pdf"
                    ELSE IF type = "docx" THEN ".docx"
                    ELSE fabAccept
    /\ cvOp' = "fabItem"
    /\ cvNote' = NoNote
    /\ lastFile' = NoFile
    /\ badgeBefore' = badge
    /\ cvSubmit' = "none"
    /\ UNCHANGED <<cvText, cvFiles, cvRequired, cvFieldError, cvBorderTinted,
                   charCounter, badge, fabOpen>>
    /\ UNCHANGED otherThanCV

\* validateForm(form) on the /analyze form, with whatever required attribute
\* cv_text carries when it starts
validateAnalyze(requiredAtStart) ==
    /\ cvFieldError' = CvErrorAfterLoop(cvText, requiredAtStart, cvFieldError)
    /\ cvBorderTinted' = CvErrorAfterLoop(cvText, requiredAtStart, cvBorderTinted)
    /\ cvRequired' = CvRequiredAfterValidate(cvText, cvFiles)

\* a submit attempt on the /analyze form: the browser validates; if that
\* passes, submit is dispatched: syncRequired (line 40), then the generic
\* listener, which calls validateForm and never prevents the default action
SubmitAnalyze ==
    /\ cvSubmit # "sent"
    /\ IF NativeValid(cvText, cvRequired)
       THEN /\ validateAnalyze(syncRequired(cvText, cvFiles))
            /\ cvSubmit' = "sent"
       ELSE /\ cvSubmit' = "blocked"
            /\ UNCHANGED <<cvRequired, cvFieldError, cvBorderTinted>>
    /\ cvOp' = "submit"
    /\ cvNote' = NoNote
    /\ lastFile' = NoFile
    /\ badgeBefore' = badge
    /\ UNCHANGED <<cvText, cvFiles, charCounter, badge, fabOpen, fabAccept>>
    /\ UNCHANGED otherThanCV

\* window.CareerHub.validateForm(form) on the /analyze form
ApiValidateAnalyze ==
    /\ cvSubmit # "sent"
    /\ validateAnalyze(cvRequired)
    /\ cvOp' = "validate"
    /\ cvNote' = NoNote
    /\ lastFile' = NoFile
    /\ badgeBefore' = badge
    /\ cvSubmit' = "none"
    /\ UNCHANGED <<cvText, cvFiles, charCounter, badge, fabOpen, fabAccept>>
    /\ UNCHANGED otherThanCV

InitCV ==
    /\ cvText = <<>>
    /\ cvFiles = <<>>
    /\ cvRequired = TRUE
    /\ cvFieldError = FALSE
    /\ cvBorderTinted = FALSE
    /\ charCounter = EmptyCounter
    /\ badge = HiddenBadge
    /\ badgeBefore = HiddenBadge
    /\ fabOpen = FALSE
    /\ fabAccept = ""
    /\ lastFile = NoFile
    /\ cvNote = NoNote
    /\ cvOp = "load"
    /\ cvSubmit = "none"

\* the submission navigates away; the page with the form is loaded afresh
PageReload ==
    /\ cvSubmit = "sent"
    /\ cvText' = <<>>
    /\ cvFiles' = <<>>
    /\ cvRequired' = TRUE
    /\ cvFieldError' = FALSE
    /\ cvBorderTinted' = FALSE
    /\ charCounter' = EmptyCounter
    /\ badge' = HiddenBadge
    /\ badgeBefore' = HiddenBadge
    /\ fabOpen' = FALSE
    /\ fabAccept' = ""
    /\ lastFile' = NoFile
    /\ cvNote' = NoNote
    /\ cvOp' = "load"
    /\ cvSubmit' = "none"
    /\ UNCHANGED otherThanCV

(***************************************************************************)
(* A form other than /analyze: validateForm, showFieldError,               *)
(* clearFieldError and the generic submit listener.                        *)
(***************************************************************************)
Fields == 1..NumFields

Parents == 1..NumFields

\* clearFieldError: field.parentNode.querySelector('.field-error') is the
\* first error element of the parent, whichever field it was created for
clearFieldError(errs, field) ==
    [errs EXCEPT ![fParent[field]] = IF @ = <<>> THEN @ ELSE Tail(@)]

\* showFieldError: clearFieldError, then a new error element is appended to
\* the field's parent
showFieldError(errs, field) ==
    [clearFieldError(errs, field) EXCEPT ![fParent[field]] = Append(@, field)]

\* fieldValueMissing with the value left untrimmed
fieldValueMissingUntrimmed(value) == value = <<>>

\* !field.value.trim()
fieldValueMissing(value) == Trim(value) = <<>>

\* validateForm's loop over form.querySelectorAll('[required]'), from field i
\* on in document order
RECURSIVE validateFields(_, _, _, _)
validateFields(i, errs, borders, isValid) ==
    IF i > NumFields
    THEN [errors |-> errs, borders |-> borders, isValid |-> isValid]
    ELSE IF ~fRequired[i]
    THEN validateFields(i + 1, errs, borders, isValid)
    ELSE IF fieldValueMissing(fValue[i])
    THEN validateFields(i + 1, showFieldError(errs, i),
                        [borders EXCEPT ![i] = TRUE], FALSE)
    ELSE validateFields(i + 1, clearFieldError(errs, i),
                        [borders EXCEPT ![i] = FALSE], isValid)

validateForm == validateFields(1, fErrors, fBorder, TRUE)

\* the browser's constraint validation before it dispatches submit
FormNativeValid == \A f \in Fields : ~(fRequired[f] /\ fValue[f] = <<>>)

\* the user edits a field; the script listens to nothing here
FieldEdit(f, text) ==
    /\ fOp # "sent"
    /\ fValue[f] # text
    /\ fValue' = [fValue EXCEPT ![f] = text]
    /\ fOp' = "edit"
    /\ UNCHANGED <<fParent, fRequired, fErrors, fBorder, fValid, fPrevented>>
    /\ UNCHANGED otherThanForm

\* window.CareerHub.validateForm(form)
ApiValidateForm ==
    /\ fOp # "sent"
    /\ fErrors' = validateForm.errors
    /\ fBorder' = validateForm.borders
    /\ fValid' = validateForm.isValid
    /\ fOp' = "validate"
    /\ UNCHANGED <<fValue, fParent, fRequired, fPrevented>>
    /\ UNCHANGED otherThanForm

\* a submit attempt: the browser validates; if that passes, the generic submit
\* listener runs validateForm and prevents the default action when it fails
SubmitForm ==
    /\ fOp # "sent"
    /\ IF FormNativeValid
       THEN /\ fErrors' = validateForm.errors
            /\ fBorder' = validateForm.borders
            /\ fValid' = validateForm.isValid
            /\ fPrevented' = ~validateForm.isValid
            /\ fOp' = IF validateForm.isValid THEN "sent" ELSE "submit"
       ELSE /\ fOp' = "blocked"
            /\ UNCHANGED <<fErrors, fBorder, fValid, fPrevented>>
    /\ UNCHANGED <<fValue, fParent, fRequired>>
    /\ UNCHANGED otherThanForm

\* the submission navigates away; the page with the form is loaded afresh
FormReload ==
    /\ fOp = "sent"
    /\ fValue' = [f \in Fields |-> <<>>]
    /\ fErrors' = [p \in Parents |-> <<>>]
    /\ fBorder' = [f \in Fields |-> FALSE]
    /\ fValid' = TRUE
    /\ fPrevented' = FALSE
    /\ fOp' = "load"
    /\ UNCHANGED <<fParent, fRequired>>
    /\ UNCHANGED otherThanForm

\* the markup decides which fields share a parent and which are required
Arrangements == { a \in [Fields -> Parents] : \A f \in Fields : a[f] <= f }

InitForm(arrangements, requireds) ==
    /\ fValue = [f \in Fields |-> <<>>]
    /\ fParent \in arrangements
    /\ fRequired \in requireds
    /\ fErrors = [p \in Parents |-> <<>>]
    /\ fBorder = [f \in Fields |-> FALSE]
    /\ fValid = TRUE
    /\ fPrevented = FALSE
    /\ fOp = "load"

(***************************************************************************)
(* Notifications: showNotification and the two timers it sets.             *)
(***************************************************************************)
\* colors[type] || colors.info
NotificationColour(type) ==
    IF type = "success" THEN "#27ae60"
    ELSE IF type = "error" THEN "#e74c3c"
    ELSE IF type = "warning" THEN "#f39c12"
    ELSE "#3498db"

\* the element showNotification creates: appended to document.body, with the
\* 3000 ms display timer set; detachedByOther records that something other
\* than its own timer took it out of the page
NewNotification(message, type) ==
    [message |-> message, type |-> type, colour |-> NotificationColour(type),
     animation |-> "slideIn", attached |-> TRUE, timer |-> "display",
     detachedByOther |-> FALSE]

showNotification(message, type) ==
    notifications' = Append(notifications, NewNotification(message, type))

\* the 3000 ms callback of the n-th notification: the exit animation is set
\* and the 300 ms timer started.  Timers of equal delay run in the order they
\* were set.
DisplayTimerFires(n) ==
    /\ n \in 1..Len(notifications)
    /\ notifications[n].timer = "display"
    /\ \A m \in 1..(n - 1) : notifications[m].timer # "display"
    /\ notifications' = [notifications EXCEPT ![n].animation = "slideOut",
                                              ![n].timer = "remove"]
    /\ noteOp' = "displayTimer"
    /\ UNCHANGED otherThanNotes

\* RemoveTimerFires leaving the element in the page
RemoveTimerKeepsElement(n) ==
    /\ n \in 1..Len(notifications)
    /\ notifications[n].timer = "remove"
    /\ \A m \in 1..(n - 1) : notifications[m].timer = "none"
    /\ notifications' = [notifications EXCEPT ![n].timer = "none"]
    /\ noteOp' = "removeTimer"
    /\ UNCHANGED otherThanNotes

\* the 300 ms callback of the n-th notification: notification.remove(), which
\* does nothing to an element that is no longer in the page
RemoveTimerFires(n) ==
    /\ n \in 1..Len(notifications)
    /\ notifications[n].timer = "remove"
    /\ \A m \in 1..(n - 1) : notifications[m].timer = "none"
    /\ notifications' = [notifications EXCEPT ![n].attached = FALSE,
                                              ![n].timer = "none"]
    /\ noteOp' = "removeTimer"
    /\ UNCHANGED otherThanNotes

\* window.CareerHub.showNotification(message, type), or a handler of the page
\* calling showNotification
ShowNotification(note) ==
    /\ Len(notifications) < MaxNotes
    /\ showNotification(note.message, note.type)
    /\ noteOp' = "show"
    /\ UNCHANGED otherThanNotes

\* another script of the page takes the n-th notification out of the document
\* while its timers are pending
DetachNotification(n) ==
    /\ n \in 1..Len(notifications)
    /\ notifications[n].attached
    /\ notifications' = [notifications EXCEPT ![n].attached = FALSE,
                                              ![n].detachedByOther = TRUE]
    /\ noteOp' = "detach"
    /\ UNCHANGED otherThanNotes

(***************************************************************************)
(* The /skills form: the submit listener and the skill counter.            *)
(***************************************************************************)
Skills == 1..NumSkills

NoteNoSkill == [type |-> "error",
                message |-> <<"Please select at least one skill for assessment">>]

\* noSkillChecked taking a single checked box for none
fewSkillsChecked(checked) == Cardinality(checked) <= 1

\* checkedSkills.length === 0
noSkillChecked(checked) == Cardinality(checked) = 0

\* change event on the i-th input[name="skills"]: updateSkillCounter
ToggleSkill(i) ==
    /\ skOp # "sent"
    /\ skChecked' = IF i \in skChecked THEN skChecked \ {i} ELSE skChecked \cup {i}
    /\ skCounter' = Cardinality(skChecked')
    /\ skPrevented' = FALSE
    /\ skNote' = NoNote
    /\ skOp' = "change"
    /\ UNCHANGED noteVars
    /\ UNCHANGED otherThanSkills

\* submit event on the /skills form, whose fields are the checkboxes: the
\* generic listener's validateForm finds no required field and returns true;
\* then the listener of initializeSkillsAssessment runs
SubmitSkills ==
    /\ skOp # "sent"
    /\ IF noSkillChecked(skChecked)
       THEN /\ Len(notifications) < MaxNotes
            /\ skPrevented' = TRUE
            /\ showNotification(NoteNoSkill.message, NoteNoSkill.type)
            /\ skNote' = NoteNoSkill
            /\ noteOp' = "show"
            /\ skOp' = "submit"
       ELSE /\ skPrevented' = FALSE
            /\ skNote' = NoNote
            /\ skOp' = "sent"
            /\ UNCHANGED noteVars
    /\ UNCHANGED <<skChecked, skCounter>>
    /\ UNCHANGED otherThanSkills

\* the submission navigates away; the page with the form is loaded afresh and
\* the old page's notifications and timers are gone
SkillsReload ==
    /\ skOp = "sent"
    /\ skChecked' = {}
    /\ skCounter' = 0
    /\ skPrevented' = FALSE
    /\ skNote' = NoNote
    /\ skOp' = "load"
    /\ notifications' = <<>>
    /\ noteOp' = "load"
    /\ UNCHANGED otherThanSkills

(***************************************************************************)
(* Submit buttons: the click listener of initializeAnimations and          *)
(* showLoadingState with its restore timer.                                *)
(***************************************************************************)
Buttons == 1..NumButtons

\* the markup's label of each button
MarkupLabel(b) == <<"Submit", b>>

\* '<span class="loading"></span> Processing...'
ProcessingLabel == <<"<span class=\"loading\"></span> Processing...">>

\* how the markup leaves a button
FreshButton(b) ==
    [innerHTML |-> MarkupLabel(b), disabled |-> FALSE, timer |-> FALSE,
     originalText |-> <<>>, labelAtClick |-> <<>>]

\* the button's form: none (this.form is null), or the result of checkValidity
FormStates == {"none", "valid", "invalid"}

\* originalText read once the processing label is in place
originalTextAfterSwap(button) == ProcessingLabel

\* const originalText = button.innerHTML
originalText(button) == button.innerHTML

\* showLoadingState(button): the button as it leaves it, the 3000 ms timer set
showLoadingState(button) ==
    [button EXCEPT !.originalText = originalText(button),
                   !.innerHTML = ProcessingLabel,
                   !.disabled = TRUE,
                   !.timer = TRUE]

\* click on button b.  The browser dispatches no click to a disabled button.
\* The listener reads this.form.checkValidity().  submits: whether the click's
\* default action then submits the form and the page starts to navigate; the
\* button is disabled by then, and a submit listener may prevent the
\* submission, so both outcomes occur.
ButtonClick(b, submits) ==
    /\ ~navigating
    /\ ~buttons[b].disabled
    /\ IF buttonForm[b] = "none"
       THEN /\ loadThrew' = TRUE
            /\ navigating' = FALSE
            /\ buttons' = [buttons EXCEPT ![b].labelAtClick = buttons[b].innerHTML]
       ELSE IF buttonForm[b] = "valid"
       THEN /\ loadThrew' = FALSE
            /\ navigating' = submits
            /\ buttons' = [buttons EXCEPT
                    ![b] = [showLoadingState(buttons[b]) EXCEPT
                                !.labelAtClick = buttons[b].innerHTML]]
       ELSE /\ loadThrew' = FALSE
            /\ navigating' = FALSE
            /\ buttons' = [buttons EXCEPT ![b].labelAtClick = buttons[b].innerHTML]
    /\ loadOp' = "click"
    /\ UNCHANGED buttonForm
    /\ UNCHANGED otherThanLoading

\* the 3000 ms callback of showLoadingState for button b
RestoreTimerFires(b) ==
    /\ buttons[b].timer
    /\ buttons' = [buttons EXCEPT ![b].innerHTML = buttons[b].originalText,
                                  ![b].disabled = FALSE,
                                  ![b].timer = FALSE]
    /\ loadOp' = "timer"
    /\ loadThrew' = FALSE
    /\ UNCHANGED <<buttonForm, navigating>>
    /\ UNCHANGED otherThanLoading

\* the user edits the fields of b's form, which makes checkValidity pass or fail
FormValidityChanges(b, state) ==
    /\ ~navigating
    /\ buttonForm[b] # "none"
    /\ state \in {"valid", "invalid"}
    /\ state # buttonForm[b]
    /\ buttonForm' = [buttonForm EXCEPT ![b] = state]
    /\ loadOp' = "edit"
    /\ loadThrew' = FALSE
    /\ UNCHANGED <<buttons, navigating>>
    /\ UNCHANGED otherThanLoading

\* the submission replaces the page: its timers are discarded and the markup
\* is loaded afresh
ButtonsReload ==
    /\ navigating
    /\ buttons' = [b \in Buttons |-> FreshButton(b)]
    /\ buttonForm' = [b \in Buttons |->
                          IF buttonForm[b] = "none" THEN "none" ELSE "valid"]
    /\ navigating' = FALSE
    /\ loadThrew' = FALSE
    /\ loadOp' = "load"
    /\ UNCHANGED otherThanLoading

\* the markup decides which buttons have a form, and its fields whether the
\* form is valid when the page has loaded
InitButtons(forms) ==
    /\ buttons = [b \in Buttons |-> FreshButton(b)]
    /\ buttonForm \in forms
    /\ navigating = FALSE
    /\ loadThrew = FALSE
    /\ loadOp = "load"

(***************************************************************************)
(* Page load: the DOMContentLoaded handler and its seven initialisers.     *)
(***************************************************************************)
\* where cv_text and #cv_file may sit: nowhere, inside the /analyze form, or
\* elsewhere in the document
Places == {"none", "inForm", "outside"}

\* the pages the markup may give
Pages ==
    { p \in [analyzeForm : BOOLEAN, cvText : Places, cvFile : Places,
             skillsForm : BOOLEAN, matchForm : BOOLEAN, userSkills : BOOLEAN,
             fileBadge : BOOLEAN, fabUpload : BOOLEAN] :
          /\ p.cvText = "inForm" => p.analyzeForm
          /\ p.cvFile = "inForm" => p.analyzeForm }

\* the page with every element the script looks up
FullPage ==
    [analyzeForm |-> TRUE, cvText |-> "inForm", cvFile |-> "inForm",
     skillsForm |-> TRUE, matchForm |-> TRUE, userSkills |-> TRUE,
     fileBadge |-> TRUE, fabUpload |-> TRUE]

\* document.querySelectorAll('form') is not empty
AnyForm(p) == p.analyzeForm \/ p.skillsForm \/ p.matchForm

NumInitialisers == 7

\* an initialiser returned (threwNow = FALSE) or threw: the exception leaves
\* the DOMContentLoaded handler, and the initialisers after it never run
InitialiserEnds(threwNow, added) ==
    /\ initThrew' = threwNow
    /\ installed' = installed \cup added
    /\ initPc' = IF threwNow THEN initPc ELSE initPc + 1
    /\ UNCHANGED markup
    /\ UNCHANGED otherThanInit

\* the /analyze form is taken to be the first form of the document
initializeFormValidation ==
    /\ initPc = 0 /\ ~initThrew
    /\ IF markup.analyzeForm /\ markup.cvText # "inForm"
       THEN \* line 37: cvTextarea is null
            InitialiserEnds(TRUE, {})
       ELSE IF markup.analyzeForm /\ markup.cvFile # "inForm"
       THEN \* line 38: cvFile is null
            InitialiserEnds(TRUE, {"syncOnInput"})
       ELSE InitialiserEnds(FALSE,
                (IF markup.analyzeForm
                 THEN {"syncOnInput", "syncOnChange", "syncOnSubmit"} ELSE {})
                \cup (IF AnyForm(markup) THEN {"validateOnSubmit"} ELSE {}))

\* updateSkillCounter creates the counter even when there is no /skills form
initializeSkillsAssessment ==
    /\ initPc = 1 /\ ~initThrew
    /\ InitialiserEnds(FALSE,
           (IF markup.skillsForm THEN {"skillsSubmit"} ELSE {}) \cup {"skillCounter"})

initializeJobMatching ==
    /\ initPc = 2 /\ ~initThrew
    /\ InitialiserEnds(FALSE,
           IF markup.userSkills THEN {"suggestOnInput", "commitOnKey"} ELSE {})

\* showCVTips appends to document.querySelector('form[action="/analyze"]')
initializeCVAnalysis ==
    /\ initPc = 3 /\ ~initThrew
    /\ IF markup.cvText = "none"
       THEN InitialiserEnds(FALSE, {})
       ELSE IF ~markup.analyzeForm
       THEN \* line 448: cvForm is null
            InitialiserEnds(TRUE, {"charCounter"})
       ELSE InitialiserEnds(FALSE, {"charCounter", "cvTips"})

initializeAnimations ==
    /\ initPc = 4 /\ ~initThrew
    /\ InitialiserEnds(FALSE, IF AnyForm(markup) THEN {"loadingOnClick"} ELSE {})

initializeFileValidation ==
    /\ initPc = 5 /\ ~initThrew
    /\ InitialiserEnds(FALSE, IF markup.cvFile # "none" THEN {"fileValidator"} ELSE {})

initializeFabUpload ==
    /\ initPc = 6 /\ ~initThrew
    /\ InitialiserEnds(FALSE,
           IF markup.fabUpload /\ markup.cvFile # "none" THEN {"fabMenu"} ELSE {})

\* what the handler leaves on the page with every element
AllInstalled ==
    {"syncOnInput", "syncOnChange", "syncOnSubmit", "validateOnSubmit",
     "skillsSubmit", "skillCounter", "suggestOnInput", "commitOnKey",
     "charCounter", "cvTips", "loadingOnClick", "fileValidator", "fabMenu"}

\* the page with every element, after the DOMContentLoaded handler returned
InitLoaded ==
    /\ markup = FullPage
    /\ initPc = NumInitialisers
    /\ initThrew = FALSE
    /\ installed = AllInstalled

\* any page, when DOMContentLoaded is dispatched
InitLoading ==
    /\ markup \in Pages
    /\ initPc = 0
    /\ initThrew = FALSE
    /\ installed = {}

InitSkills ==
    /\ skChecked = {}
    /\ skCounter = 0
    /\ skPrevented = FALSE
    /\ skNote = NoNote
    /\ skOp = "load"

InitNotifications ==
    /\ notifications = <<>>
    /\ noteOp = "load"

InitTags ==
    /\ inputValue = <<>>
    /\ chips = <<>>
    /\ tagsContainer = FALSE
    /\ lastInput = <<>>
    /\ dropdownItems = <<>>
    /\ pageDropdowns = <<>>
    /\ threw = FALSE
    /\ tagOp = "load"
    /\ commitText = <<>>
    /\ clickedChip = 0

Init ==
    /\ InitTags
    /\ InitCV
    /\ InitForm({[f \in Fields |-> f]}, {[f \in Fields |-> TRUE]})
    /\ InitLoaded
    /\ InitSkills
    /\ InitNotifications
    /\ InitButtons({[b \in Buttons |-> "valid"]})

InitAnyForm ==
    /\ InitTags
    /\ InitCV
    /\ InitForm(Arrangements, [Fields -> BOOLEAN])
    /\ InitLoaded
    /\ InitSkills
    /\ InitNotifications
    /\ InitButtons({[b \in Buttons |-> "valid"]})

InitAnyButtons ==
    /\ InitTags
    /\ InitCV
    /\ InitForm({[f \in Fields |-> f]}, {[f \in Fields |-> TRUE]})
    /\ InitLoaded
    /\ InitSkills
    /\ InitNotifications
    /\ InitButtons([Buttons -> FormStates])

InitAnyPage ==
    /\ InitTags
    /\ InitCV
    /\ InitForm({[f \in Fields |-> f]}, {[f \in Fields |-> TRUE]})
    /\ InitLoading
    /\ InitSkills
    /\ InitNotifications
    /\ InitButtons({[b \in Buttons |-> "valid"]})

(***************************************************************************)
(* SpecSuggest: typing into user_skills, no chip committed.                *)
(***************************************************************************)
SuggestChars == {"j", "a", "v", "A", ",", " "}

NextSuggest ==
    \/ \E c \in SuggestChars : InputEvent(c, MaxInputLen)
    \/ DeleteEvent(MaxInputLen)

SpecSuggest == Init /\ [][NextSuggest]_vars

(***************************************************************************)
(* SpecTags: typing, committing and removing tags.                         *)
(***************************************************************************)
TagChars == {"s", " "}

ApiSkills == { <<>>, <<" ">>, <<"C","S","S">>, <<" ","*","b">> }

NextTags ==
    \/ \E c \in TagChars : InputEvent(c, MaxTagInputLen)
    \/ DeleteEvent(MaxTagInputLen)
    \/ \E c \in TagChars : ReplaceEvent(c)
    \/ \E key \in CommitKeys : KeyCommit(key, MaxTagInputLen)
    \/ \E skill \in ApiSkills : ApiAddSkillTag(skill)
    \/ \E i \in 1..MaxChips : RemoveChip(i)

SpecTags == Init /\ [][NextTags]_vars

(***************************************************************************)
(* SpecCV: the /analyze form.                                              *)
(***************************************************************************)
CvChars == {"a", " "}

FileNames == { <<"r",".","p","d","f">>, <<"r",".","D","O","C","X">>,
               <<"r",".","e","x","e">>, <<"p","d","f">> }

FileSizes == { MaxFileBytes, MaxFileBytes + 1 }

Files == [name : FileNames, size : FileSizes]

NextCV ==
    \/ \E c \in CvChars : CvTextInput(c)
    \/ CvTextDelete
    \/ \E file \in Files : FileChange(file)
    \/ FileCancel
    \/ BadgeRemoveClick
    \/ FabMainClick
    \/ \E type \in FabTypes : FabItemClick(type)
    \/ SubmitAnalyze
    \/ ApiValidateAnalyze
    \/ PageReload

SpecCV == Init /\ [][NextCV]_vars

(***************************************************************************)
(* SpecForm: a form other than /analyze, in any arrangement of its fields. *)
(***************************************************************************)
FieldTexts == { <<>>, <<" ">>, <<"a">> }

NextForm ==
    \/ \E f \in Fields, text \in FieldTexts : FieldEdit(f, text)
    \/ ApiValidateForm
    \/ SubmitForm
    \/ FormReload

SpecForm == InitAnyForm /\ [][NextForm]_vars

(***************************************************************************)
(* SpecInit: the page load, on any page.                                       *)
(***************************************************************************)
NextInit ==
    \/ initializeFormValidation
    \/ initializeSkillsAssessment
    \/ initializeJobMatching
    \/ initializeCVAnalysis
    \/ initializeAnimations
    \/ initializeFileValidation
    \/ initializeFabUpload

SpecInit == InitAnyPage /\ [][NextInit]_vars

(***************************************************************************)
(* SpecSkills: the /skills form and the notifications it shows.            *)
(***************************************************************************)
NextSkills ==
    \/ \E i \in Skills : ToggleSkill(i)
    \/ SubmitSkills
    \/ SkillsReload
    \/ \E n \in 1..MaxNotes : DisplayTimerFires(n)
    \/ \E n \in 1..MaxNotes : RemoveTimerFires(n)

SpecSkills == Init /\ [][NextSkills]_vars

(***************************************************************************)
(* SpecNotify: notifications shown by any caller, their timers, and        *)
(* another script detaching them.  The browser runs every timer that is    *)
(* due, hence the fairness on the two callbacks.                           *)
(***************************************************************************)
Notes == { NoteBadType, NoteTooLarge, NoteRemoved, NoteNoSkill,
           [type |-> "notice", message |-> <<"Saved.">>] }

NextNotify ==
    \/ \E note \in Notes : ShowNotification(note)
    \/ \E n \in 1..MaxNotes : DisplayTimerFires(n)
    \/ \E n \in 1..MaxNotes : RemoveTimerFires(n)
    \/ \E n \in 1..MaxNotes : DetachNotification(n)

TimersRun ==
    \A n \in 1..MaxNotes : /\ WF_vars(DisplayTimerFires(n))
                            /\ WF_vars(RemoveTimerFires(n))

SpecNotify == Init /\ [][NextNotify]_vars /\ TimersRun

(***************************************************************************)
(* SpecLoading: clicks on the submit buttons and their restore timers.     *)
(* The browser runs every timer that is due, hence the fairness.           *)
(***************************************************************************)
NextLoading ==
    \/ \E b \in Buttons, submits \in BOOLEAN : ButtonClick(b, submits)
    \/ \E b \in Buttons : RestoreTimerFires(b)
    \/ \E b \in Buttons, state \in FormStates : FormValidityChanges(b, state)
    \/ ButtonsReload

RestoreTimersRun == \A b \in Buttons : WF_vars(RestoreTimerFires(b))

SpecLoading == InitAnyButtons /\ [][NextLoading]_vars /\ RestoreTimersRun

(***************************************************************************)
(* Claims about the widget.                                                *)
(***************************************************************************)
ChipTexts == [i \in 1..Len(chips) |-> ChipSkillText(chips[i])]

\* C1: after every tag commit (Enter or comma key, exposed add-skill-tag) and
\* every tag removal, once the handler has finished, the value of user_skills
\* is the chips' texts (remove control stripped), in DOM order, joined with ", ".
C1_BackingFieldIsJoin ==
    tagOp \in {"keyCommit", "apiAdd", "remove"} => inputValue = Join(ChipTexts)

EqualsIgnoringCase(a, b) == ToLowerCase(a) = ToLowerCase(b)

EqualsSomeSegment(item, text) ==
    \E k \in 1..Len(Split(text)) : EqualsIgnoringCase(item, Trim(Split(text)[k]))

\* C4: after an input event, no suggestion case-insensitively equals the text
\* of a chip currently in the tag set, and none equals a trimmed
\* comma-separated segment of the input text.
C4_NoSuggestionOfChipOrSegment ==
    tagOp = "input" =>
        \A n \in 1..Len(dropdownItems) :
            /\ \A i \in 1..Len(chips) :
                   ~EqualsIgnoringCase(dropdownItems[n], chips[i].skill)
            /\ ~EqualsSomeSegment(dropdownItems[n], lastInput)

TextJava == <<"j","a","v","a">>

SkillJava == <<"J","a","v","a">>

SkillJavaScript == <<"J","a","v","a","S","c","r","i","p","t">>

\* C5 as stated: for the input text "java" the suggestion list holds both
\* "Java" and "JavaScript".
C5_JavaListsJavaAndJavaScript ==
    (tagOp = "input" /\ lastInput = TextJava) =>
        /\ \E n \in 1..Len(dropdownItems) : dropdownItems[n] = SkillJava
        /\ \E n \in 1..Len(dropdownItems) : dropdownItems[n] = SkillJavaScript

\* C5 as amended: for the input text "java" the suggestion list built is
\* exactly <<"JavaScript">>: "Java" contains the text but case-insensitively
\* equals the input's only comma segment, and is filtered out.
C5_JavaListsJavaScriptOnly ==
    (tagOp = "input" /\ lastInput = TextJava) =>
        dropdownItems = <<SkillJavaScript>>

C5_Witness == tagOp = "input" /\ lastInput = TextJava

VocabularyIndex(item) == CHOOSE k \in 1..Len(suggestions) : suggestions[k] = item

\* C6: after an input event with text t, every suggestion built is a vocabulary
\* entry, at most 5 are built, they keep vocabulary order, and none
\* case-insensitively equals a trimmed comma-separated segment of t.
C6_SuggestionsWellFormed ==
    tagOp = "input" =>
        /\ \A n \in 1..Len(dropdownItems) :
               \E k \in 1..Len(suggestions) : suggestions[k] = dropdownItems[n]
        /\ Len(dropdownItems) <= 5
        /\ \A m, n \in 1..Len(dropdownItems) :
               m < n => VocabularyIndex(dropdownItems[m]) < VocabularyIndex(dropdownItems[n])
        /\ \A n \in 1..Len(dropdownItems) :
               ~EqualsSomeSegment(dropdownItems[n], lastInput)

\* several suggestions were built, in vocabulary order, for a text that
\* matches only case-insensitively
C6_Witness ==
    /\ tagOp = "input"
    /\ Len(dropdownItems) >= 3
    /\ lastInput # ToLowerCase(lastInput)

PassingEntries(text) ==
    SelectSeq(suggestions,
              LAMBDA skill : /\ Includes(ToLowerCase(skill), ToLowerCase(text))
                             /\ ~EqualsSomeSegment(skill, text))

\* C7: after every input event, no suggestion list is in the page when the
\* text has length <= 1 or no entry passes the filter; otherwise exactly one
\* is in the page, holding the first min(5, n) passing entries.
C7_DropdownInPageIffMatches ==
    tagOp = "input" =>
        IF Len(lastInput) <= 1 \/ PassingEntries(lastInput) = <<>>
        THEN pageDropdowns = <<>>
        ELSE /\ Len(pageDropdowns) = 1
             /\ pageDropdowns[1] = SubSeq(PassingEntries(lastInput), 1,
                    IF Len(PassingEntries(lastInput)) < 5
                    THEN Len(PassingEntries(lastInput)) ELSE 5)

(***************************************************************************)
(* Claims about the /analyze form.                                         *)
(***************************************************************************)
CvBlank == \A i \in 1..Len(cvText) : cvText[i] = " "

CvNoFile == cvFiles = <<>>

\* C2: in every state, once all listeners of the event have run, cv_text
\* carries the required attribute if and only if its text is blank and no
\* file is selected in cv_file.
C2_RequiredIffBlankAndNoFile == cvRequired <=> (CvBlank /\ CvNoFile)

\* C3: the /analyze form is never submitted while the cv_text text is blank
\* and no file is selected.
C3_NeverSubmittedBlank == cvSubmit = "sent" => ~(CvBlank /\ CvNoFile)

LowerName(file) == ToLowerCase(file.name)

HasSuffix(text, n, suffix) ==
    Len(text) >= n /\ SubSeq(text, Len(text) - n + 1, Len(text)) = suffix

Acceptable(file) ==
    /\ \/ HasSuffix(LowerName(file), 4, <<".","p","d","f">>)
       \/ HasSuffix(LowerName(file), 5, <<".","d","o","c","x">>)
    /\ file.size <= 8388608

\* C8: after a file-change with a chosen file, the file was accepted if and
\* only if its lowercased name ends in .pdf or .docx and its size is at most
\* 8388608 bytes.  Rejected: the selection is empty, an error notification
\* is shown, the badge is as it was.  Accepted: the selection is the file, a
\* success notification is shown, the badge is displayed with the file's name.
C8_FileAcceptedIffAllowed ==
    cvOp = "fileChange" =>
        IF Acceptable(lastFile)
        THEN /\ cvFiles = <<lastFile>>
             /\ cvNote.type = "success"
             /\ badge = [shown |-> TRUE, name |-> lastFile.name]
        ELSE /\ cvFiles = <<>>
             /\ cvNote.type = "error"
             /\ badge = badgeBefore

\* a file of exactly 8 MiB with an upper-case extension was accepted
C8_Witness ==
    /\ cvOp = "fileChange"
    /\ lastFile.size = 8388608
    /\ lastFile.name = <<"r",".","D","O","C","X">>
    /\ cvFiles = <<lastFile>>

\* C10: on the /analyze form no run of the submit listeners or of the exposed
\* validate-form ever attaches an inline error element or a tinted border to
\* cv_text.
C10_NoInlineErrorOnCvText == ~cvFieldError /\ ~cvBorderTinted

(***************************************************************************)
(* Claims about the shared validator.                                      *)
(***************************************************************************)
FieldBlank(f) == \A i \in 1..Len(fValue[f]) : fValue[f][i] = " "

HasOwnError(f) ==
    \E k \in 1..Len(fErrors[fParent[f]]) : fErrors[fParent[f]][k] = f

\* C9: after validate-form has run on a form, for every required field and in
\* any arrangement of the fields, an inline error element for the field is
\* present if and only if the field is blank, and the field has the tinted
\* border if and only if it is blank.
C9_ErrorIffBlank ==
    fOp \in {"validate", "submit", "sent"} =>
        \A f \in Fields :
            fRequired[f] => /\ HasOwnError(f) <=> FieldBlank(f)
                            /\ fBorder[f] <=> FieldBlank(f)

AnyRequiredBlank == \E f \in Fields : fRequired[f] /\ FieldBlank(f)

\* C11: on a form whose action is not /analyze, validate-form returns false if
\* and only if at least one required field is blank (empty or whitespace
\* only), and a submit event has its default action prevented by the generic
\* submit listener if and only if validate-form returned false.
C11_InvalidIffBlankPreventedIffInvalid ==
    /\ fOp \in {"validate", "submit", "sent"} => (fValid <=> ~AnyRequiredBlank)
    /\ fOp \in {"submit", "sent"} => (fPrevented <=> ~fValid)

\* a submit event was prevented on a form with one required field filled in
\* and another holding only whitespace
C11_Witness ==
    /\ fOp = "submit"
    /\ fPrevented
    /\ \E f, g \in Fields : /\ fRequired[f] /\ ~FieldBlank(f)
                            /\ fRequired[g] /\ FieldBlank(g) /\ fValue[g] # <<>>

\* C12: on a page where every expected element is present, no event handler
\* registered by the script and no exposed operation ends with an uncaught
\* exception, for any input text and any sequence of events.
C12_NoHandlerThrows == ~threw

(***************************************************************************)
(* Claims about the page load.                                               *)
(***************************************************************************)
\* C13: for every subset of the expected page elements being present, the
\* page-load initialisation runs all seven initialisers to completion without
\* an exception, skipping only the features whose elements are absent.
C13_InitCompletesOnEveryPage == ~initThrew

(***************************************************************************)
(* Claims about commits and removals.                                      *)
(***************************************************************************)
\* the text a commit step hands to the tag set: the key path trims it
CommittedText == IF tagOp' = "keyCommit" THEN Trim(commitText') ELSE commitText'

AllButOne(seq, i) == [k \in 1..(Len(seq) - 1) |-> IF k < i THEN seq[k] ELSE seq[k + 1]]

\* C14: the chips in DOM order are the committed non-empty texts in commit
\* order with the removed chips deleted: a commit of a non-empty text appends
\* one chip with that text at the end and changes no other chip, also when a
\* chip with the same text exists; a removal deletes exactly the chip whose
\* remove control was clicked and keeps the order of the rest; nothing else
\* changes the chips.
C14_ChipsAreCommitsInOrder ==
    [][ /\ (tagOp' \in {"keyCommit", "apiAdd"} /\ CommittedText # <<>>) =>
               /\ Len(chips') = Len(chips) + 1
               /\ \A k \in 1..Len(chips) : chips'[k] = chips[k]
               /\ chips'[Len(chips')].skill = CommittedText
        /\ (tagOp' \in {"keyCommit", "apiAdd"} /\ CommittedText = <<>>) =>
               chips' = chips
        /\ tagOp' = "remove" =>
               /\ clickedChip' \in 1..Len(chips)
               /\ chips' = AllButOne(chips, clickedChip')
        /\ tagOp' = "input" => chips' = chips
      ]_vars

\* the same text was committed twice and sits in two chips
C14_Witness ==
    /\ tagOp \in {"keyCommit", "apiAdd"}
    /\ Len(chips) = 2
    /\ chips[1].skill = chips[2].skill

Blank(text) == \A i \in 1..Len(text) : text[i] = " "

\* C15: on every commit path (Enter or comma key, exposed add-skill-tag), a
\* commit attempt whose text is empty or whitespace-only creates no chip,
\* leaves the tag set unchanged and shows no error.
C15_BlankCommitIgnored ==
    [][ (tagOp' \in {"keyCommit", "apiAdd"} /\ Blank(commitText')) =>
            /\ chips' = chips
            /\ tagsContainer' = tagsContainer
            /\ ~threw'
      ]_vars

\* C18: for every non-empty text committed as a tag, also one that itself
\* contains a space followed by the remove-control glyph, the entry that
\* updateSkillsInput derives for its chip equals the text: only the trailing
\* remove control is stripped.
C18_ChipTextRoundTrip ==
    \A i \in 1..Len(chips) : ChipSkillText(chips[i]) = chips[i].skill

(***************************************************************************)
(* Claims about the /skills form and the notifications.                    *)
(***************************************************************************)
ErrorNotificationCreated ==
    \E n \in 1..Len(notifications) :
        /\ notifications[n].type = "error"
        /\ notifications[n].message = skNote.message

\* C16: every submit of the /skills form while no skills checkbox is checked
\* has its default action prevented and shows an error notification; with at
\* least one checkbox checked the skills submit listener neither prevents the
\* submit nor shows a notification.
C16_SkillsSubmitBlockedIffNoneChecked ==
    skOp \in {"submit", "sent"} =>
        IF skChecked = {}
        THEN skPrevented /\ skNote.type = "error" /\ ErrorNotificationCreated
        ELSE ~skPrevented /\ skNote = NoNote

\* two submits with nothing checked were prevented, each with its own notification
C16_Witness ==
    /\ skOp = "submit"
    /\ skPrevented
    /\ skChecked = {}
    /\ Len(notifications) = 2

(***************************************************************************)
(* Further claims about the /analyze form.                                 *)
(***************************************************************************)
\* C17: each evaluation of syncRequired (on text input, on file change,
\* before submit) leaves cv_text required exactly when the text is blank and
\* no file is selected at that moment, whatever the marker was before; run
\* again on the same text and file it gives the same marker.  At a file
\* change the chosen file is in the input when syncRequired runs, before the
\* validator looks at it.
C17_RecomputeFollowsTextAndFile ==
    /\ syncRequired(cvText, cvFiles) <=> (CvBlank /\ CvNoFile)
    /\ cvOp = "textInput" => (cvRequired <=> (CvBlank /\ CvNoFile))
    /\ cvOp = "fileChange" => ~cvRequired
    /\ cvOp = "fileCancel" => (cvRequired <=> CvBlank)
    /\ cvSubmit = "sent" => (cvRequired <=> (CvBlank /\ CvNoFile))

\* whitespace was typed over a text while a file was selected: the marker,
\* off before, stays off; and without the file it would be on
C17_Witness ==
    /\ cvOp = "textInput"
    /\ cvText = <<" ">>
    /\ cvFiles # <<>>
    /\ ~cvRequired
    /\ syncRequired(cvText, <<>>)

\* C19: whenever the filename badge is displayed, cv_file holds a selected
\* file and the badge text is that file's name; in particular after a rejected
\* selection no file is selected and the badge is hidden.
C19_BadgeShowsSelectedFile ==
    /\ badge.shown => (cvFiles # <<>> /\ badge.name = cvFiles[1].name)
    /\ (cvOp = "fileChange" /\ cvNote.type = "error") =>
           (cvFiles = <<>> /\ ~badge.shown)

Shown(n) == n <= Len(notifications) /\ notifications[n].attached

TimerPending(n) == n <= Len(notifications) /\ notifications[n].timer # "none"

ChangedNotifications ==
    { k \in 1..Len(notifications) : notifications'[k] # notifications[k] }

\* C20: every notification shown is eventually out of the page, and each of
\* its timers eventually completes, also when the element was detached
\* before; its exit animation starts in the step of its display timer only;
\* the script takes it out of the page only in the step of its second timer,
\* after the exit animation was set; a timer step changes one notification
\* and no other.
C20_NotificationsAreRemoved ==
    /\ \A n \in 1..MaxNotes : Shown(n) ~> ~Shown(n)
    /\ \A n \in 1..MaxNotes : TimerPending(n) ~> ~TimerPending(n)
    /\ [][ /\ Len(notifications') >= Len(notifications)
           /\ \A n \in 1..Len(notifications) :
                  /\ notifications'[n].animation # notifications[n].animation =>
                         /\ noteOp' = "displayTimer"
                         /\ notifications'[n].animation = "slideOut"
                  /\ (notifications[n].attached /\ ~notifications'[n].attached
                         /\ ~notifications'[n].detachedByOther) =>
                         /\ noteOp' = "removeTimer"
                         /\ notifications[n].animation = "slideOut"
           /\ noteOp' \in {"displayTimer", "removeTimer"} =>
                  /\ Len(notifications') = Len(notifications)
                  /\ Cardinality(ChangedNotifications) = 1
         ]_vars

\* the timers of a notification that another script had detached both ran,
\* while a later notification was still in the page
C20_Witness ==
    \E n, m \in 1..Len(notifications) :
        /\ n < m
        /\ notifications[n].detachedByOther
        /\ notifications[n].timer = "none"
        /\ notifications[m].attached
        /\ noteOp = "removeTimer"

(***************************************************************************)
(* Claims about the submit buttons.                                        *)
(***************************************************************************)
Loading(b) == buttons[b].disabled /\ buttons[b].innerHTML = ProcessingLabel

\* C21: a submit button enters the loading state (disabled, label replaced by
\* the processing indicator) only in the step of a click while its form
\* passes checkValidity; every button that entered it is eventually enabled
\* again, and on the page where it was clicked only its timer enables it,
\* with exactly the label it had before that click; no enabled button carries
\* the processing indicator, and a disabled one is in the loading state.
C21_LoadingStateIsRestored ==
    /\ \A b \in Buttons : buttons[b].disabled ~> ~buttons[b].disabled
    /\ [](\A b \in Buttons :
              /\ ~buttons[b].disabled => buttons[b].innerHTML = MarkupLabel(b)
              /\ buttons[b].disabled => (Loading(b) /\ buttons[b].timer))
    /\ [][ \A b \in Buttons :
               /\ (~buttons[b].disabled /\ buttons'[b].disabled) =>
                      /\ loadOp' = "click"
                      /\ buttonForm[b] = "valid"
                      /\ Loading(b)'
               /\ (buttons[b].disabled /\ ~buttons'[b].disabled) =>
                      \/ /\ loadOp' = "timer"
                         /\ buttons'[b].innerHTML = buttons[b].labelAtClick
                         /\ buttons'[b].innerHTML # ProcessingLabel
                      \/ loadOp' = "load"
         ]_vars

\* a button was restored by its timer while the other one, clicked later, is
\* still in the loading state
C21_Witness ==
    /\ loadOp = "timer"
    /\ ~navigating
    /\ \E b, c \in Buttons :
           /\ ~buttons[b].disabled
           /\ buttons[b].originalText = MarkupLabel(b)
           /\ Loading(c)

====
